---- MODULE Spec2Model ----
(***************************************************************************)
(* Model of package secure (src/secure.go): client side session tokens     *)
(* kept in an http cookie.  One client (its cookie jar is `carrier`)       *)
(* talks to one server process.  Each step Authentication, LogIn, Update   *)
(* or LogOut is one request of the client, served by one call of that      *)
(* function, atomically at the time `now`; `last` then holds what the call *)
(* did until EndRequest, and the client sends its next request after it.   *)
(*                                                                         *)
(* Time is counted in abstract units; durations (TimeOut, SyncInterval)    *)
(* are numbers of units.  The cookie codec (gorilla securecookie) is       *)
(* modelled by what the package relies on: a cookie encoded with a codec   *)
(* (an authentication key and an encryption key) decodes under a store     *)
(* exactly when that codec is one of the store's codecs, and a new cookie  *)
(* is encoded with the store's first codec.                                *)
(*                                                                         *)
(* Spec is that one process, configured without a DB, and its client.      *)
(* SpecFleet is a fleet of processes configured with one shared DB, and    *)
(* their sync goroutines (key rotation); it has no client.                 *)
(***************************************************************************)
EXTENDS Integers, Sequences, FiniteSets, TLC

\* Last instant of the clock.
MaxTime == 5

\* Last instant of the clock in the fleet.
MaxFleetTime == 4

\* Go's nil, for an interface{} or string value of session.Values.
Nil == "nil"

\* A missing time.Time entry of session.Values (created, validated), and a
\* zero time.Time in a Config.
NoTime == -1

\* Request paths (r.URL.Path).
Paths == {"/a", "/b"}

\* Token data handed to LogIn/Update and returned by Validate; nil is a
\* legal interface{} value.
Records == {Nil, "u1", "u2"}

ErrNone == "ok"
ErrTokenNotSaved == "secure: failed to save the session token"
ErrNoTLS == "secure: logging in requires an encrypted conection"

\* var config = &Config{...}: the package's default configuration.  The
\* four random keys are the ids 1..4; the defaults 6*30 days and 5 minutes
\* are scaled to 4 and 2 units.
DefaultConfig ==
    [LogInPath |-> "/session", LogOutPath |-> "/", TimeOut |-> 4,
     SyncInterval |-> 2, KeyPairs |-> <<1, 2, 3, 4>>, TimeStamp |-> 0]

\* The optionalConfig arguments of Configure that are tried: none (<<>>),
\* an empty Config (every field zero), one that overrides paths, durations
\* and keys, and one that sets a revalidation interval longer than the
\* lifetime, a time stamp and a key list of the wrong length.
OptionalConfigs ==
    { <<>>,
      << [LogInPath |-> "", LogOutPath |-> "", TimeOut |-> 0,
          SyncInterval |-> 0, KeyPairs |-> <<>>, TimeStamp |-> NoTime] >>,
      << [LogInPath |-> "/login", LogOutPath |-> "/home", TimeOut |-> 3,
          SyncInterval |-> 1, KeyPairs |-> <<5, 6, 7, 8>>, TimeStamp |-> NoTime] >>,
      << [LogInPath |-> "", LogOutPath |-> "", TimeOut |-> 2,
          SyncInterval |-> 3, KeyPairs |-> <<9, 10>>, TimeStamp |-> 1] >> }

VARIABLES
    now,        \* time.Now()
    config,     \* var config *Config
    store,      \* var store *sessions.CookieStore; <<>> before Configure
    validate,   \* var validate: "default" or "custom"
    carrier,    \* the client's cookie named tokenName
    pending,    \* history: the path stored by the latest denial whose token
                \* the client holds, Nil when it holds none
    last,       \* the request in flight: what its handler call did; NoCall
                \* when the client has no request in flight
    db,         \* the database behind the DB interface: <<>> or <<Config>>
    configs,    \* var config of each process of the fleet
    stores,     \* var store of each process of the fleet; <<>> before Configure
    syncs,      \* the sync goroutine of each process: where it is, and what
                \* its current (or, asleep, its latest) cycle did
    parent      \* history: <<codec made by a rotation, codec it demoted>>

\* The variables of a fleet of processes that share a database.
fleetVars == <<db, configs, stores, syncs, parent>>

\* The variables of the one process that serves the client's requests.
requestVars == <<config, store, validate, carrier, pending, last>>

vars == <<now, config, store, validate, carrier, pending, last,
          db, configs, stores, syncs, parent>>

----------------------------------------------------------------------------
(* Cookies and sessions *)

\* session.Values with none of the four fields set.
EmptyValues ==
    [record |-> Nil, created |-> NoTime, validated |-> NoTime, return |-> Nil]

\* The client holds no cookie.
NoCookie == [kind |-> "none", values |-> EmptyValues, codec |-> <<0, 0>>]

\* The client holds a cookie no codec decodes (tampered, truncated).
GarbageCookie == [kind |-> "garbage", values |-> EmptyValues, codec |-> <<0, 0>>]

\* securecookie.CodecsFromPairs: consecutive (hash key, block key) pairs.
CodecsFromPairs(keyPairs) ==
    [i \in 1..(Len(keyPairs) \div 2) |-> <<keyPairs[2 * i - 1], keyPairs[2 * i]>>]

\* configureStore(): a new CookieStore on config.KeyPairs, with its Options.
configureStore(cfg) ==
    << [Codecs |-> CodecsFromPairs(cfg.KeyPairs), MaxAge |-> cfg.TimeOut] >>

\* securecookie.DecodeMulti: some codec of the store decodes the cookie.
Decodes(cookie, st) ==
    /\ cookie.kind = "token"
    /\ \E i \in 1..Len(st.Codecs) : st.Codecs[i] = cookie.codec

\* CookieStore.New: the session of a request that has none in its registry.
NewSession(cookie, st) ==
    IF Decodes(cookie, st)
    THEN [IsNew |-> FALSE, Values |-> cookie.values, MaxAge |-> st.MaxAge,
          Codecs |-> st.Codecs]
    ELSE [IsNew |-> TRUE, Values |-> EmptyValues, MaxAge |-> st.MaxAge,
          Codecs |-> st.Codecs]

\* Faulty variant of getToken: the request's cookie is not looked at, every
\* request gets a new session.
getTokenIgnoresCookie(cookie, st) == NewSession(NoCookie, st[1])

\* getToken(r), first call on a request: store.Get registers a new session
\* for the request.  The later calls on the same request (clearToken's)
\* return that same session.
getToken(cookie, st) == NewSession(cookie, st[1])

\* session.Save(r, w) that succeeded: the Set-Cookie the client applies.  A
\* negative MaxAge makes the client delete the cookie.
SavedCookie(session) ==
    IF session.MaxAge < 0
    THEN NoCookie
    ELSE [kind |-> "token", values |-> session.Values, codec |-> session.Codecs[1]]

\* The client's cookie after a handler that called Save on the sessions
\* `saves`, in order; a failed Save sets no cookie.
AfterSaves(cookie, saves, saveOK) ==
    IF saveOK /\ Len(saves) > 0 THEN SavedCookie(saves[Len(saves)]) ELSE cookie

----------------------------------------------------------------------------
(* Configure *)

\* Configure's overlay of optionalConfig[0] on config.
Overlay(cfg, opt) ==
    [LogInPath    |-> IF opt.LogInPath # "" THEN opt.LogInPath ELSE cfg.LogInPath,
     LogOutPath   |-> IF opt.LogOutPath # "" THEN opt.LogOutPath ELSE cfg.LogOutPath,
     TimeOut      |-> IF opt.TimeOut > 0 THEN opt.TimeOut ELSE cfg.TimeOut,
     SyncInterval |-> IF opt.SyncInterval > 0 THEN opt.SyncInterval ELSE cfg.SyncInterval,
     KeyPairs     |-> IF Len(opt.KeyPairs) = 4 THEN opt.KeyPairs ELSE cfg.KeyPairs,
     TimeStamp    |-> IF opt.TimeStamp # NoTime THEN opt.TimeStamp ELSE cfg.TimeStamp]

----------------------------------------------------------------------------
(* The session state machine *)

\* Faulty variant of sessionCurrent: the age of the token is not compared
\* with config.TimeOut.
sessionCurrentNoTimeOut(session, t, cfg) ==
    session.Values.created # NoTime

\* sessionCurrent(session): the token was created less than TimeOut ago.
sessionCurrent(session, t, cfg) ==
    /\ session.Values.created # NoTime
    /\ t - session.Values.created < cfg.TimeOut

\* The results validate(src) can have: the default returns (src, true), an
\* application's function may return any record and either verdict.
ValidateResults(vf, src) ==
    IF vf = "default"
    THEN {[dst |-> src, valid |-> TRUE]}
    ELSE [dst : Records, valid : BOOLEAN]

\* Faulty variant of accountCurrent: when validate accepts, the record it
\* returned is dropped and the token keeps its old record.
accountCurrentKeepsRecord(session, v, t, cfg) ==
    IF session.Values.validated = NoTime
    THEN [current |-> FALSE, session |-> session, vcalls |-> 0, saves |-> <<>>]
    ELSE IF t - session.Values.validated < cfg.SyncInterval
    THEN [current |-> TRUE, session |-> session, vcalls |-> 0, saves |-> <<>>]
    ELSE IF v.valid
    THEN LET s == [session EXCEPT !.Values.validated = t]
         IN  [current |-> TRUE, session |-> s, vcalls |-> 1, saves |-> <<s>>]
    ELSE [current |-> FALSE, session |-> session, vcalls |-> 1, saves |-> <<>>]

\* Faulty variant of accountCurrent: validate is called whatever the age of
\* the last validation.
accountCurrentAlwaysValidates(session, v, t, cfg) ==
    IF session.Values.validated = NoTime
    THEN [current |-> FALSE, session |-> session, vcalls |-> 0, saves |-> <<>>]
    ELSE IF v.valid
    THEN LET s == [session EXCEPT !.Values.record = v.dst, !.Values.validated = t]
         IN  [current |-> TRUE, session |-> s, vcalls |-> 1, saves |-> <<s>>]
    ELSE [current |-> FALSE, session |-> session, vcalls |-> 1, saves |-> <<>>]

\* Faulty variant of accountCurrent: an accepted revalidation also renews
\* created-at.
accountCurrentRenewsCreated(session, v, t, cfg) ==
    IF session.Values.validated = NoTime
    THEN [current |-> FALSE, session |-> session, vcalls |-> 0, saves |-> <<>>]
    ELSE IF t - session.Values.validated < cfg.SyncInterval
    THEN [current |-> TRUE, session |-> session, vcalls |-> 0, saves |-> <<>>]
    ELSE IF v.valid
    THEN LET s == [session EXCEPT !.Values.record = v.dst, !.Values.validated = t,
                                  !.Values.created = t]
         IN  [current |-> TRUE, session |-> s, vcalls |-> 1, saves |-> <<s>>]
    ELSE [current |-> FALSE, session |-> session, vcalls |-> 1, saves |-> <<>>]

\* accountCurrent(session, w, r), where v is what validate returns if it is
\* called.  The result names the session as left, the number of calls of
\* validate and the sessions handed to session.Save.
accountCurrent(session, v, t, cfg) ==
    IF session.Values.validated = NoTime
    THEN [current |-> FALSE, session |-> session, vcalls |-> 0, saves |-> <<>>]
    ELSE IF t - session.Values.validated < cfg.SyncInterval
    THEN [current |-> TRUE, session |-> session, vcalls |-> 0, saves |-> <<>>]
    ELSE IF v.valid
    THEN LET s == [session EXCEPT !.Values.record = v.dst, !.Values.validated = t]
         IN  [current |-> TRUE, session |-> s, vcalls |-> 1, saves |-> <<s>>]
    ELSE [current |-> FALSE, session |-> session, vcalls |-> 1, saves |-> <<>>]

\* Faulty variant of clearToken: the record is left in the token.
clearTokenKeepsRecord(session) ==
    [session EXCEPT !.Values.created = NoTime, !.Values.validated = NoTime]

\* clearToken(r), on the request's session.
clearToken(session) ==
    [session EXCEPT !.Values.record = Nil, !.Values.created = NoTime,
                    !.Values.validated = NoTime]

\* Faulty variant of Deny: optional is ignored, the request is always
\* redirected.
DenyAlways(session, enforce, path, cfg) ==
    LET s == [clearToken(session) EXCEPT !.Values.return = path]
    IN  [session |-> s, redirect |-> cfg.LogInPath, saves |-> <<s>>]

\* Faulty variant of Deny: the request's path is not stored in the token.
DenyWithoutReturn(session, enforce, path, cfg) ==
    IF enforce
    THEN LET s == clearToken(session)
         IN  [session |-> s, redirect |-> cfg.LogInPath, saves |-> <<s>>]
    ELSE [session |-> session, redirect |-> Nil, saves |-> <<>>]

\* The else-branch of Authentication, taken when the token is not current:
\* with enforce the token is cleared, the request's path stored in it, the
\* token saved and the request redirected to config.LogInPath.
Deny(session, enforce, path, cfg) ==
    IF enforce
    THEN LET s == [clearToken(session) EXCEPT !.Values.return = path]
         IN  [session |-> s, redirect |-> cfg.LogInPath, saves |-> <<s>>]
    ELSE [session |-> session, redirect |-> Nil, saves |-> <<>>]

\* Faulty variant of AuthenticationCall: accountCurrent is evaluated without
\* looking at session.IsNew and sessionCurrent first.
AuthenticationCallSkipsSessionCurrent(session, enforce, path, v, t, cfg) ==
    LET a == accountCurrent(session, v, t, cfg)
        ok == a.current /\ ~session.IsNew /\ sessionCurrent(session, t, cfg)
    IN  IF ok
        THEN [session |-> a.session, record |-> a.session.Values.record,
              redirect |-> Nil, vcalls |-> a.vcalls, saves |-> a.saves]
        ELSE LET d == Deny(a.session, enforce, path, cfg)
             IN  [session |-> d.session, record |-> Nil, redirect |-> d.redirect,
                  vcalls |-> a.vcalls, saves |-> a.saves \o d.saves]

\* Authentication(w, r, optional...) on the request's session; enforce is
\* !optional[0], true when optional is not given.  accountCurrent is only
\* evaluated when the session is not new and sessionCurrent holds (&&).
AuthenticationCall(session, enforce, path, v, t, cfg) ==
    LET a == IF ~session.IsNew /\ sessionCurrent(session, t, cfg)
             THEN accountCurrent(session, v, t, cfg)
             ELSE [current |-> FALSE, session |-> session, vcalls |-> 0,
                   saves |-> <<>>]
    IN  IF a.current
        THEN [session |-> a.session, record |-> a.session.Values.record,
              redirect |-> Nil, vcalls |-> a.vcalls, saves |-> a.saves]
        ELSE LET d == Deny(a.session, enforce, path, cfg)
             IN  [session |-> d.session, record |-> Nil, redirect |-> d.redirect,
                  vcalls |-> a.vcalls, saves |-> a.saves \o d.saves]

\* Faulty variant of RedirectPath: the token's return path is ignored.
RedirectPathAlwaysLogOut(session, cfg) == cfg.LogOutPath

\* create's redirect target: the token's return path, or config.LogOutPath.
RedirectPath(session, cfg) ==
    IF session.Values.return = Nil THEN cfg.LogOutPath ELSE session.Values.return

\* Faulty variant of create: r.TLS is not looked at.
createWithoutTLSCheck(session, record, redirect, tls, saveOK, t, cfg) ==
    LET s1 == IF session.Values.created = NoTime
              THEN [session EXCEPT !.Values.created = t]
              ELSE session
        s  == [s1 EXCEPT !.Values.record = record, !.Values.validated = t]
    IN  IF ~saveOK
        THEN [session |-> s, err |-> ErrTokenNotSaved, redirect |-> Nil,
              saves |-> <<s>>]
        ELSE IF redirect
        THEN [session |-> s, err |-> ErrNone,
              redirect |-> IF s.Values.return = Nil THEN cfg.LogOutPath
                           ELSE s.Values.return,
              saves |-> <<s>>]
        ELSE [session |-> s, err |-> ErrNone, redirect |-> Nil, saves |-> <<s>>]

\* create(w, r, record, redirect).
create(session, record, redirect, tls, saveOK, t, cfg) ==
    LET s1 == IF session.Values.created = NoTime
              THEN [session EXCEPT !.Values.created = t]
              ELSE session
        s  == [s1 EXCEPT !.Values.record = record, !.Values.validated = t]
    IN  IF ~tls
        THEN [session |-> s, err |-> ErrNoTLS, redirect |-> Nil, saves |-> <<>>]
        ELSE IF ~saveOK
        THEN [session |-> s, err |-> ErrTokenNotSaved, redirect |-> Nil,
              saves |-> <<s>>]
        ELSE IF redirect
        THEN [session |-> s, err |-> ErrNone, redirect |-> RedirectPath(s, cfg),
              saves |-> <<s>>]
        ELSE [session |-> s, err |-> ErrNone, redirect |-> Nil, saves |-> <<s>>]

\* Faulty variant of LogOutCall: the session keeps the store's MaxAge, so the
\* cleared token is sent as an ordinary cookie and not deleted.
LogOutCallKeepsMaxAge(session, redirect, cfg) ==
    LET s == clearToken(session)
    IN  [session |-> s, saves |-> <<s>>,
         redirect |-> IF redirect THEN cfg.LogOutPath ELSE Nil]

\* LogOut(w, r, redirect).
LogOutCall(session, redirect, cfg) ==
    LET s == [clearToken(session) EXCEPT !.MaxAge = -1]
    IN  [session |-> s, saves |-> <<s>>,
         redirect |-> IF redirect THEN cfg.LogOutPath ELSE Nil]

----------------------------------------------------------------------------
(* State *)

NoSessionYet ==
    [IsNew |-> TRUE, Values |-> EmptyValues, MaxAge |-> 0, Codecs |-> <<>>]

NoValidate == [dst |-> Nil, valid |-> FALSE]

NoCall ==
    [op |-> "none", enforce |-> FALSE, path |-> "", tls |-> FALSE,
     saveOK |-> FALSE, pre |-> NoSessionYet, post |-> NoSessionYet,
     carrierPre |-> NoCookie, record |-> Nil, redirect |-> Nil,
     err |-> ErrNone, vcalls |-> 0, v |-> NoValidate, saves |-> <<>>]

\* The processes of the fleet.
Procs == {1, 2}

\* A process without a sync goroutine (Configure not called yet, or called
\* with db = nil).
NoCycle ==
    [pc |-> "off", wake |-> 0, ran |-> FALSE, at |-> 0, fetchErr |-> FALSE,
     dbConfig |-> <<>>, rotateConfig |-> <<>>, upsert |-> "none",
     dbBefore |-> <<>>, preConfig |-> DefaultConfig, preStore |-> <<>>]

\* The package as loaded, before Configure.
Init ==
    /\ now = 0
    /\ config = DefaultConfig
    /\ store = <<>>
    /\ validate = "default"
    /\ carrier = NoCookie
    /\ pending = Nil
    /\ last = NoCall
    /\ db = <<>>
    /\ configs = [p \in Procs |-> DefaultConfig]
    /\ stores = [p \in Procs |-> <<>>]
    /\ syncs = [p \in Procs |-> NoCycle]
    /\ parent = {}

Configured == Len(store) > 0

\* The server is configured and the client has no request in flight.
Idle == Configured /\ last.op = "none"

\* Configure(record, nil, validateFunc, optionalConfig...), called once.
Configure ==
    /\ ~Configured
    /\ \E opt \in OptionalConfigs, vf \in {"default", "custom"} :
         LET cfg == IF Len(opt) > 0 THEN Overlay(config, opt[1]) ELSE config
         IN  /\ config' = cfg
             /\ store' = configureStore(cfg)
             /\ validate' = vf
    /\ UNCHANGED <<now, carrier, pending, last>>
    /\ UNCHANGED fleetVars

\* The clock advances.
Tick ==
    /\ last.op = "none"
    /\ now < MaxTime
    /\ now' = now + 1
    /\ UNCHANGED <<config, store, validate, carrier, pending, last>>
    /\ UNCHANGED fleetVars

\* The client's cookie is damaged or replaced by one the server never made.
ClientTamper ==
    /\ Idle
    /\ carrier.kind = "token"
    /\ carrier' = GarbageCookie
    /\ pending' = Nil
    /\ UNCHANGED <<now, config, store, validate, last>>
    /\ UNCHANGED fleetVars

\* The response of the request in flight is complete.
EndRequest ==
    /\ last.op # "none"
    /\ last' = NoCall
    /\ UNCHANGED <<now, config, store, validate, carrier, pending>>
    /\ UNCHANGED fleetVars

\* A request on which the handler calls Authentication(w, r) (enforce) or
\* Authentication(w, r, optional).  saveOK: session.Save succeeds if called;
\* v: what validate returns if called.  A call that reaches no Save, or no
\* validate, is taken once, not once per value of the unused input.
Authentication ==
    /\ Idle
    /\ \E path \in Paths, enforce \in BOOLEAN, saveOK \in BOOLEAN :
         LET session == getToken(carrier, store)
         IN  \E v \in ValidateResults(validate, session.Values.record) :
               LET a == AuthenticationCall(session, enforce, path, v, now, config)
               IN  /\ Len(a.saves) = 0 => saveOK
                   /\ a.vcalls = 0 => v = CHOOSE x \in ValidateResults(validate, session.Values.record) : TRUE
                   /\ carrier' = AfterSaves(carrier, a.saves, saveOK)
                   /\ pending' = IF saveOK /\ a.redirect # Nil THEN path ELSE pending
                   /\ last' = [op |-> "Authentication", enforce |-> enforce,
                               path |-> path, tls |-> FALSE,
                               saveOK |-> saveOK, pre |-> session,
                               post |-> a.session, carrierPre |-> carrier,
                               record |-> a.record, redirect |-> a.redirect,
                               err |-> ErrNone, vcalls |-> a.vcalls,
                               v |-> IF a.vcalls = 0 THEN NoValidate ELSE v,
                               saves |-> a.saves]
    /\ UNCHANGED <<now, config, store, validate>>
    /\ UNCHANGED fleetVars

\* What LogIn and Update share: a request on which the handler calls
\* create.  tls: r.TLS != nil; saveOK: session.Save succeeds if called.
CreateStep(op, redirect) ==
    /\ Idle
    /\ \E path \in Paths, tls \in BOOLEAN, record \in Records, saveOK \in BOOLEAN :
         LET session == getToken(carrier, store)
             c == create(session, record, redirect, tls, saveOK, now, config)
         IN  /\ Len(c.saves) = 0 => saveOK
             /\ carrier' = AfterSaves(carrier, c.saves, saveOK)
             /\ pending' = pending
             /\ last' = [op |-> op, enforce |-> FALSE, path |-> path,
                         tls |-> tls, saveOK |-> saveOK, pre |-> session,
                         post |-> c.session, carrierPre |-> carrier,
                         record |-> record, redirect |-> c.redirect,
                         err |-> c.err, vcalls |-> 0, v |-> NoValidate,
                         saves |-> c.saves]
    /\ UNCHANGED <<now, config, store, validate>>
    /\ UNCHANGED fleetVars

\* LogIn(w, r, record).
LogIn == CreateStep("LogIn", TRUE)

\* Update(w, r, record).
Update == CreateStep("Update", FALSE)

\* LogOut(w, r, redirect).
LogOut ==
    /\ Idle
    /\ \E redirect \in BOOLEAN, saveOK \in BOOLEAN :
         LET session == getToken(carrier, store)
             o == LogOutCall(session, redirect, config)
         IN  /\ carrier' = AfterSaves(carrier, o.saves, saveOK)
             /\ pending' = IF saveOK THEN Nil ELSE pending
             /\ last' = [op |-> "LogOut", enforce |-> redirect, path |-> "",
                         tls |-> FALSE, saveOK |-> saveOK, pre |-> session,
                         post |-> o.session, carrierPre |-> carrier,
                         record |-> Nil, redirect |-> o.redirect,
                         err |-> ErrNone, vcalls |-> 0, v |-> NoValidate,
                         saves |-> o.saves]
    /\ UNCHANGED <<now, config, store, validate>>
    /\ UNCHANGED fleetVars

Next ==
    \/ Configure
    \/ Tick
    \/ ClientTamper
    \/ Authentication
    \/ LogIn
    \/ Update
    \/ LogOut
    \/ EndRequest

Spec == Init /\ [][Next]_vars

----------------------------------------------------------------------------
(* The fleet.  Each process of Procs loads the package and calls Configure *)
(* with the same DB; its goroutine then runs sync(db) and sleeps, for      *)
(* ever.  A cycle of sync is not atomic: its calls of the DB block, and    *)
(* the other processes, the clock and the requests of the process itself   *)
(* go on between them.  syncs[p].pc is where the goroutine of p is:        *)
(*   "off"     no goroutine yet                                            *)
(*   "idle"    between two cycles, asleep until syncs[p].wake              *)
(*   "seed"    Fetch failed; about to call db.Upsert(config)               *)
(*   "upsert"  rotateConfig is built; about to call db.Upsert(rotateConfig)*)
(*   "store"   about to call configureStore()                              *)

\* new(Config).
ZeroConfig ==
    [LogInPath |-> "", LogOutPath |-> "", TimeOut |-> 0, SyncInterval |-> 0,
     KeyPairs |-> <<>>, TimeStamp |-> NoTime]

\* securecookie.GenerateRandomKey: no two calls return the same key.  The
\* key made by process p at time t for the given slot (1..4 when the
\* package is loaded, 5 and 6 in sync).
GenerateRandomKey(p, t, slot) == 100 * p + 10 * t + slot

\* var config = &Config{...} as process p loads the package at time t.
LoadedConfig(p, t) ==
    [DefaultConfig EXCEPT
       !.KeyPairs = <<GenerateRandomKey(p, t, 1), GenerateRandomKey(p, t, 2),
                      GenerateRandomKey(p, t, 3), GenerateRandomKey(p, t, 4)>>,
       !.TimeStamp = t]

\* The optionalConfig the processes of the fleet pass to Configure: a token
\* lifetime and a sync interval of one unit each, and no keys, four keys or
\* a key list of the wrong length.
FleetOptionalConfigs ==
    { << [ZeroConfig EXCEPT !.TimeOut = 1, !.SyncInterval = 1] >>,
      << [ZeroConfig EXCEPT !.TimeOut = 1, !.SyncInterval = 1,
                            !.KeyPairs = <<5, 6, 7, 8>>] >>,
      << [ZeroConfig EXCEPT !.TimeOut = 1, !.SyncInterval = 1,
                            !.KeyPairs = <<9, 10>>] >> }

\* DB.Fetch(dst): fails when the database holds no Config or cannot be
\* reached, and then leaves dst as it was (new(Config)).
Fetch(dbv, reachable) ==
    IF reachable /\ Len(dbv) > 0
    THEN [err |-> FALSE, dst |-> dbv[1]]
    ELSE [err |-> TRUE, dst |-> ZeroConfig]

\* DB.Upsert(src): the database holds src afterwards, unless it cannot be
\* reached.
Upsert(dbv, src, reachable) ==
    [err |-> ~reachable, db |-> IF reachable THEN <<src>> ELSE dbv]

\* Faulty variant of syncConfig: config = dbConfig before err is looked at.
syncConfigIgnoresErr(cfg, f) == f.dst

\* sync: var config after db.Fetch(dbConfig) returned f.
syncConfig(cfg, f) == IF f.err THEN cfg ELSE f.dst

\* sync: "Rotate keys if timed out".
rotationDue(cfg, t) == t - cfg.TimeStamp > cfg.TimeOut

\* Faulty variant of rotateConfig: the old fallback pair is kept and the
\* old active pair dropped.
rotateConfigKeepsFallback(cfg, authKey, encrKey, t) ==
    [cfg EXCEPT !.KeyPairs = <<authKey, encrKey, cfg.KeyPairs[3],
                               cfg.KeyPairs[4]>>,
                !.TimeStamp = t]

\* Faulty variant of rotateConfig: the new pair is put in front of all the
\* keys of config, none is dropped.
rotateConfigKeepsAll(cfg, authKey, encrKey, t) ==
    [cfg EXCEPT !.KeyPairs = <<authKey, encrKey>> \o cfg.KeyPairs,
                !.TimeStamp = t]

\* sync: rotateConfig, a copy of config with two new keys in front of the
\* first pair of config, and the time stamp now.
rotateConfig(cfg, authKey, encrKey, t) ==
    [cfg EXCEPT !.KeyPairs = <<authKey, encrKey, cfg.KeyPairs[1],
                               cfg.KeyPairs[2]>>,
                !.TimeStamp = t]

\* sync: var config after db.Upsert(rotateConfig) returned u:
\* `if err := db.Upsert(rotateConfig); err != nil { config = rotateConfig }`.
upsertedConfig(cfg, rc, u) == IF u.err THEN rc ELSE cfg

\* The codec a store encodes new cookies with.
ActiveCodec(st) == st[1].Codecs[1]

Started(p) == Len(stores[p]) > 0

\* Process p loads the package and calls Configure(record, db, validateFunc,
\* optionalConfig): its goroutine starts, and is due for its first cycle.
\* The processes are alike, so they are taken to start in the order of
\* their numbers.
Start(p) ==
    /\ ~Started(p)
    /\ \A q \in Procs : q < p => Started(q)
    /\ \E opt \in FleetOptionalConfigs :
         LET cfg == Overlay(LoadedConfig(p, now), opt[1])
         IN  /\ configs' = [configs EXCEPT ![p] = cfg]
             /\ stores' = [stores EXCEPT ![p] = configureStore(cfg)]
             /\ syncs' = [syncs EXCEPT ![p] =
                            [NoCycle EXCEPT !.pc = "idle", !.wake = now,
                                            !.preConfig = cfg,
                                            !.preStore = configureStore(cfg)]]
    /\ UNCHANGED <<now, db, parent>>
    /\ UNCHANGED requestVars

\* sync up to its first Upsert: db.Fetch, and when it succeeds
\* config = dbConfig and, if the keys timed out, rotateConfig is built.
\* reachable: the database answers the Fetch.
SyncFetch(p) ==
    /\ syncs[p].pc = "idle"
    /\ now >= syncs[p].wake
    /\ \E reachable \in BOOLEAN :
         LET f == Fetch(db, reachable)
             cfg == syncConfig(configs[p], f)
             due == ~f.err /\ rotationDue(cfg, now)
             rc == rotateConfig(cfg, GenerateRandomKey(p, now, 5),
                                GenerateRandomKey(p, now, 6), now)
         IN  /\ Len(db) = 0 => reachable
             /\ configs' = [configs EXCEPT ![p] = cfg]
             /\ syncs' = [syncs EXCEPT ![p] =
                  [pc |-> IF f.err THEN "seed"
                          ELSE IF due THEN "upsert" ELSE "store",
                   wake |-> syncs[p].wake, ran |-> syncs[p].ran, at |-> now,
                   fetchErr |-> f.err,
                   dbConfig |-> IF f.err THEN <<>> ELSE <<f.dst>>,
                   rotateConfig |-> IF due THEN <<rc>> ELSE <<>>,
                   upsert |-> "none", dbBefore |-> <<>>,
                   preConfig |-> configs[p], preStore |-> stores[p]]]
             /\ parent' = IF due
                          THEN parent \cup {<<ActiveCodec(configureStore(rc)),
                                              ActiveCodec(configureStore(cfg))>>}
                          ELSE parent
    /\ UNCHANGED <<now, db, stores>>
    /\ UNCHANGED requestVars

\* The cycle of p ends: time.Sleep(config.SyncInterval).
Sleep(p, upsert, dbBefore) ==
    [syncs EXCEPT ![p].pc = "idle", ![p].ran = TRUE,
                  ![p].wake = now + configs'[p].SyncInterval,
                  ![p].upsert = upsert, ![p].dbBefore = dbBefore]

\* sync after a failed Fetch: db.Upsert(config), its error ignored.
SyncSeed(p) ==
    /\ syncs[p].pc = "seed"
    /\ \E reachable \in BOOLEAN :
         LET u == Upsert(db, configs[p], reachable)
         IN  /\ db' = u.db
             /\ configs' = configs
             /\ syncs' = Sleep(p, IF u.err THEN "failed" ELSE "ok", <<db>>)
    /\ UNCHANGED <<now, stores, parent>>
    /\ UNCHANGED requestVars

\* sync at db.Upsert(rotateConfig).
SyncUpsert(p) ==
    /\ syncs[p].pc = "upsert"
    /\ \E reachable \in BOOLEAN :
         LET u == Upsert(db, syncs[p].rotateConfig[1], reachable)
         IN  /\ db' = u.db
             /\ configs' = [configs EXCEPT ![p] =
                              upsertedConfig(configs[p],
                                             syncs[p].rotateConfig[1], u)]
             /\ syncs' = [syncs EXCEPT ![p].pc = "store",
                                       ![p].upsert = IF u.err THEN "failed" ELSE "ok",
                                       ![p].dbBefore = <<db>>]
    /\ UNCHANGED <<now, stores, parent>>
    /\ UNCHANGED requestVars

\* sync at configureStore(), the last statement of the cycle.
SyncStore(p) ==
    /\ syncs[p].pc = "store"
    /\ stores' = [stores EXCEPT ![p] = configureStore(configs[p])]
    /\ configs' = configs
    /\ syncs' = Sleep(p, syncs[p].upsert, syncs[p].dbBefore)
    /\ UNCHANGED <<now, db, parent>>
    /\ UNCHANGED requestVars

\* The clock advances in the fleet.  A unit of the clock is long compared
\* with a cycle of sync: a goroutine that is due runs its cycle, and ends
\* it, before the clock shows the next unit.
FleetTick ==
    /\ \A p \in Procs :
         \/ syncs[p].pc = "off"
         \/ (syncs[p].pc = "idle" /\ syncs[p].wake > now)
    /\ now < MaxFleetTime
    /\ Tick

NextFleet ==
    \/ \E p \in Procs : Start(p)
    \/ \E p \in Procs : SyncFetch(p)
    \/ \E p \in Procs : SyncSeed(p)
    \/ \E p \in Procs : SyncUpsert(p)
    \/ \E p \in Procs : SyncStore(p)
    \/ FleetTick

\* The fleet alone: no client, and the process of `config` not configured.
SpecFleet == Init /\ [][NextFleet]_vars

----------------------------------------------------------------------------
(* The fleet for ever.  The database is always reachable, every goroutine  *)
(* keeps running and time never ends.  Beyond MaxFleetTime the clock keeps *)
(* its reading and the origin of time moves instead: every time in the     *)
(* state becomes one unit older, down to 0, which stands for `MaxFleetTime *)
(* units ago or longer`.  TimeOut and SyncInterval are shorter than that,  *)
(* so no comparison of sync changes.  The keys, named by the time they     *)
(* were made, move with it.                                                *)

\* The optionalConfig the processes pass to Configure: a lifetime as long
\* as the sync interval, or shorter.
LiveOptionalConfigs ==
    { << [ZeroConfig EXCEPT !.TimeOut = 1, !.SyncInterval = 1] >>,
      << [ZeroConfig EXCEPT !.TimeOut = 1, !.SyncInterval = 2] >> }

\* Start(p), for the optionalConfigs of LiveOptionalConfigs.
LiveStart(p) ==
    /\ ~Started(p)
    /\ \A q \in Procs : q < p => Started(q)
    /\ \E opt \in LiveOptionalConfigs :
         LET cfg == Overlay(LoadedConfig(p, now), opt[1])
         IN  /\ configs' = [configs EXCEPT ![p] = cfg]
             /\ stores' = [stores EXCEPT ![p] = configureStore(cfg)]
             /\ syncs' = [syncs EXCEPT ![p] =
                            [NoCycle EXCEPT !.pc = "idle", !.wake = now,
                                            !.preConfig = cfg,
                                            !.preStore = configureStore(cfg)]]
    /\ UNCHANGED <<now, db, parent>>
    /\ UNCHANGED requestVars

\* SyncFetch(p) with the database reachable: Fetch fails only when the
\* database holds no Config.
LiveFetch(p) == SyncFetch(p) /\ (syncs'[p].fetchErr => Len(db) = 0)

\* SyncSeed(p) with the database reachable.
LiveSeed(p) == SyncSeed(p) /\ syncs'[p].upsert = "ok"

\* SyncUpsert(p) with the database reachable.
LiveUpsert(p) == SyncUpsert(p) /\ syncs'[p].upsert = "ok"

\* A time, a key, a Config, a store and a cycle when the origin of time has
\* moved by one unit.
ShiftTime(t) == IF t <= 0 THEN t ELSE t - 1

ShiftKey(k) == IF k >= 100 /\ (k % 100) \div 10 > 0 THEN k - 10 ELSE k

ShiftCodec(c) == <<ShiftKey(c[1]), ShiftKey(c[2])>>

ShiftConfig(cfg) ==
    [cfg EXCEPT !.KeyPairs = [i \in 1..Len(cfg.KeyPairs) |-> ShiftKey(cfg.KeyPairs[i])],
                !.TimeStamp = ShiftTime(cfg.TimeStamp)]

ShiftConfigs(cs) == [i \in 1..Len(cs) |-> ShiftConfig(cs[i])]

ShiftStore(st) ==
    [i \in 1..Len(st) |->
       [st[i] EXCEPT !.Codecs = [j \in 1..Len(st[i].Codecs) |->
                                   ShiftCodec(st[i].Codecs[j])]]]

ShiftCycle(c) ==
    [c EXCEPT !.wake = ShiftTime(c.wake), !.at = ShiftTime(c.at),
              !.dbConfig = ShiftConfigs(c.dbConfig),
              !.rotateConfig = ShiftConfigs(c.rotateConfig),
              !.dbBefore = [i \in 1..Len(c.dbBefore) |-> ShiftConfigs(c.dbBefore[i])],
              !.preConfig = ShiftConfig(c.preConfig),
              !.preStore = ShiftStore(c.preStore)]

\* The clock advances beyond MaxFleetTime.
FleetShift ==
    /\ \A p \in Procs :
         \/ syncs[p].pc = "off"
         \/ (syncs[p].pc = "idle" /\ syncs[p].wake > now)
    /\ now = MaxFleetTime
    /\ now' = now
    /\ db' = ShiftConfigs(db)
    /\ configs' = [p \in Procs |-> IF Started(p) THEN ShiftConfig(configs[p])
                                   ELSE configs[p]]
    /\ stores' = [p \in Procs |-> ShiftStore(stores[p])]
    /\ syncs' = [p \in Procs |-> IF Started(p) THEN ShiftCycle(syncs[p])
                                 ELSE syncs[p]]
    /\ parent' = {<<ShiftCodec(x[1]), ShiftCodec(x[2])>> : x \in parent}
    /\ UNCHANGED requestVars

NextFleetLive ==
    \/ \E p \in Procs : LiveStart(p)
    \/ \E p \in Procs : LiveFetch(p)
    \/ \E p \in Procs : LiveSeed(p)
    \/ \E p \in Procs : LiveUpsert(p)
    \/ \E p \in Procs : SyncStore(p)
    \/ FleetTick
    \/ FleetShift

\* Every goroutine that can take its next step takes it, and time passes.
FairFleet ==
    /\ \A p \in Procs :
         /\ WF_vars(LiveFetch(p))
         /\ WF_vars(LiveSeed(p))
         /\ WF_vars(LiveUpsert(p))
         /\ WF_vars(SyncStore(p))
    /\ WF_vars(FleetTick)
    /\ WF_vars(FleetShift)

SpecFleetLive == Init /\ [][NextFleetLive]_vars /\ FairFleet

----------------------------------------------------------------------------
(* Properties of Authentication.  In a state with last.op # "none" the     *)
(* call named by `last` has just been made at the time `now`: last.pre is  *)
(* the session getToken returned to it, last.post the session as it left   *)
(* it, carrier the client's cookie after the call and last.carrierPre the  *)
(* one before.                                                             *)

Auth == last.op = "Authentication"

\* The token the call decoded, by class.  '>=': created-at (last-validated-
\* at) is not within the lifetime (interval); this includes every token
\* older than it.
PreDecoded == ~last.pre.IsNew /\ last.carrierPre.kind = "token"
PreHasTimes ==
    last.pre.Values.created # NoTime /\ last.pre.Values.validated # NoTime
PreAbsent == last.pre.IsNew \/ ~PreHasTimes
PreExpired ==
    /\ PreDecoded
    /\ last.pre.Values.created # NoTime
    /\ now - last.pre.Values.created >= config.TimeOut
PreUnexpired ==
    PreDecoded /\ PreHasTimes /\ now - last.pre.Values.created < config.TimeOut
PreStale ==
    PreUnexpired /\ now - last.pre.Values.validated >= config.SyncInterval
PreFresh ==
    PreUnexpired /\ now - last.pre.Values.validated < config.SyncInterval

\* The denial of an enforcing call: the token is cleared but for the
\* request's path, saved (the client holds it if the save succeeded), and
\* the request redirected to the login path; no record is returned.
Denied ==
    /\ last.record = Nil
    /\ last.redirect = config.LogInPath
    /\ last.post.Values = [EmptyValues EXCEPT !.return = last.path]
    /\ last.saves = <<last.post>>
    /\ carrier = IF last.saveOK THEN SavedCookie(last.post) ELSE last.carrierPre
    /\ carrier.kind = "token" /\ last.saveOK => carrier.values = last.post.Values

\* The non-redirecting outcome of an optional call: no record, no redirect,
\* nothing saved, the client's cookie as it was.
Passed ==
    /\ last.record = Nil
    /\ last.redirect = Nil
    /\ last.saves = <<>>
    /\ carrier = last.carrierPre

\* C1: Authentication on a token whose created-at is older than
\* config.TimeOut yields no record and takes the denial path without
\* consulting validate, whatever last-validated-at is.
C1_ExpiredYieldsNoRecord ==
    (Auth /\ PreExpired) =>
        /\ last.record = Nil
        /\ last.vcalls = 0
        /\ IF last.enforce THEN Denied ELSE Passed

\* An expired token that carries a record and was validated within the
\* revalidation interval has been presented.
C1_Witness ==
    /\ Auth /\ PreExpired
    /\ now - last.pre.Values.created > config.TimeOut
    /\ last.pre.Values.record # Nil
    /\ last.pre.Values.validated # NoTime
    /\ now - last.pre.Values.validated < config.SyncInterval

\* C2: on an unexpired token whose last validation is older than
\* config.SyncInterval, one call of Authentication calls validate exactly
\* once; if validate accepts, the token handed to Save (and held by the
\* client once saved) has last-validated-at = now and the record validate
\* returned, created-at is kept, and that record is returned.
C2_StaleRevalidatedOnce ==
    (Auth /\ PreStale) =>
        /\ last.vcalls = 1
        /\ last.v.valid =>
             /\ last.record = last.v.dst
             /\ last.redirect = Nil
             /\ last.post.Values =
                  [last.pre.Values EXCEPT !.record = last.v.dst, !.validated = now]
             /\ last.saves = <<last.post>>
             /\ last.saveOK =>
                  /\ carrier.kind = "token"
                  /\ carrier.values.validated = now
                  /\ carrier.values.record = last.v.dst
                  /\ carrier.values.created = last.pre.Values.created

\* validate accepted a stale token and replaced its record, and the client
\* received the refreshed token.
C2_Witness ==
    /\ Auth /\ PreStale
    /\ now - last.pre.Values.validated > config.SyncInterval
    /\ last.v.valid /\ last.saveOK
    /\ last.v.dst # last.pre.Values.record
    /\ last.v.dst # Nil

\* What Authentication does, in the same mode and on the same path, for a
\* client that sent no cookie.
AbsentOutcome ==
    AuthenticationCall(NewSession(NoCookie, store[1]), last.enforce, last.path,
                       NoValidate, now, config)

\* C3: when validate rejects a stale token, Authentication returns, redirects
\* and saves exactly as for a client without a cookie in the same mode:
\* enforcing, the denial; optional, no record and nothing else.
C3_RejectedAsAbsent ==
    (Auth /\ PreStale /\ last.vcalls = 1 /\ ~last.v.valid) =>
        /\ last.record = AbsentOutcome.record
        /\ last.redirect = AbsentOutcome.redirect
        /\ Len(last.saves) = Len(AbsentOutcome.saves)
        /\ \A i \in 1..Len(last.saves) :
             SavedCookie(last.saves[i]) = SavedCookie(AbsentOutcome.saves[i])
        /\ IF last.enforce THEN Denied ELSE Passed

\* validate rejected the token of an enforcing call, and of a token that
\* carried a record and a return path of another request.
C3_Witness ==
    /\ Auth /\ PreStale /\ last.vcalls = 1 /\ ~last.v.valid
    /\ last.enforce /\ last.saveOK
    /\ last.pre.Values.record # Nil
    /\ last.pre.Values.return \notin {Nil, last.path}

\* C4: on a fresh token (created-at within the lifetime, last-validated-at
\* within the interval) Authentication returns the stored record, does not
\* call validate, saves nothing, leaves token and cookie as they were and
\* does not redirect.
C4_FreshUntouched ==
    (Auth /\ PreFresh) =>
        /\ last.record = last.pre.Values.record
        /\ last.record = last.carrierPre.values.record
        /\ last.vcalls = 0
        /\ last.saves = <<>>
        /\ last.post = last.pre
        /\ carrier = last.carrierPre
        /\ last.redirect = Nil

\* An enforcing call found a fresh token with a record, at a later time than
\* its creation.
C4_Witness ==
    /\ Auth /\ PreFresh /\ last.enforce
    /\ last.pre.Values.record # Nil
    /\ last.pre.Values.created < last.pre.Values.validated
    /\ last.pre.Values.validated < now

\* C5: Authentication with optional = true on an absent, undecodable,
\* expired or rejected token returns no record, does not redirect and leaves
\* the client's cookie as it was.
C5_OptionalNeverRedirects ==
    (/\ Auth /\ ~last.enforce
     /\ \/ PreAbsent
        \/ PreExpired
        \/ (last.vcalls = 1 /\ ~last.v.valid)) =>
        /\ Passed
        /\ last.post = last.pre

\* validate rejected the token of an optional call.
C5_Witness ==
    /\ Auth /\ ~last.enforce
    /\ last.vcalls = 1 /\ ~last.v.valid
    /\ last.pre.Values.record # Nil

\* C6: Authentication with optional = false on an absent or expired token
\* removes record, created-at and last-validated-at from the token, stores
\* the request's path in it, saves it, redirects to config.LogInPath and
\* returns no record.
C6_EnforcedDenial ==
    (Auth /\ last.enforce /\ (PreAbsent \/ PreExpired)) =>
        /\ Denied
        /\ last.vcalls = 0

\* An enforcing call found an expired token with a record and another
\* request's return path, and the client received the cleared token.
C6_Witness ==
    /\ Auth /\ last.enforce /\ PreExpired /\ last.saveOK
    /\ last.pre.Values.record # Nil
    /\ last.pre.Values.return \notin {Nil, last.path}
    /\ carrier.kind = "token"

\* C7: an enforcing call of Authentication returns no record exactly when
\* it redirected to the login path.
C7_NoRecordIffRedirect ==
    (Auth /\ last.enforce) =>
        ((last.record = Nil) <=> (last.redirect = config.LogInPath))

----------------------------------------------------------------------------
(* Properties of LogIn and Update *)

Created == last.op \in {"LogIn", "Update"}

\* C8: LogIn and Update on a request without TLS return ErrNoTLS, save
\* nothing and do not redirect; with TLS and a failing save they return
\* ErrTokenNotSaved and do not redirect.
C8_CreateErrors ==
    Created =>
        /\ ~last.tls =>
             /\ last.err = ErrNoTLS
             /\ last.saves = <<>>
             /\ carrier = last.carrierPre
             /\ last.redirect = Nil
        /\ (last.tls /\ ~last.saveOK) =>
             /\ last.err = ErrTokenNotSaved
             /\ carrier = last.carrierPre
             /\ last.redirect = Nil

\* LogIn was called without TLS on a token that holds a return path.
C8_Witness ==
    /\ last.op = "LogIn" /\ ~last.tls
    /\ last.record # Nil
    /\ last.pre.Values.return # Nil

\* C9: after a successful LogIn the client's token has created-at =
\* last-validated-at = now, whatever token the request carried, and an
\* Authentication of it at once returns the record logged in.
C9_LogInStartsSession ==
    (last.op = "LogIn" /\ last.err = ErrNone) =>
        /\ carrier.kind = "token"
        /\ carrier.values.created = now
        /\ carrier.values.validated = now
        /\ \A v \in ValidateResults(validate, carrier.values.record) :
             AuthenticationCall(getToken(carrier, store), TRUE, last.path, v,
                                now, config).record = last.record

\* C10: a successful LogIn redirects to the path stored in the token by
\* the latest denial, and to config.LogOutPath when no path is stored.
C10_LogInRedirect ==
    (last.op = "LogIn" /\ last.err = ErrNone) =>
        /\ last.redirect = IF pending # Nil THEN pending ELSE config.LogOutPath
        /\ last.pre.IsNew => pending = Nil
        /\ ~last.pre.IsNew => last.pre.Values.return = pending

\* A LogIn succeeded on a token in which a denial had stored a path.
C10_Witness ==
    /\ last.op = "LogIn" /\ last.err = ErrNone
    /\ pending # Nil
    /\ last.redirect = pending
    /\ last.redirect # config.LogOutPath

\* C11: Update never changes created-at and never redirects: the token it
\* leaves, and the one it saves, has the created-at the request's token had,
\* also when it had none.
C11_UpdateKeepsCreated ==
    last.op = "Update" =>
        /\ last.redirect = Nil
        /\ last.post.Values.created = last.pre.Values.created
        /\ \A i \in 1..Len(last.saves) :
             last.saves[i].Values.created = last.pre.Values.created

----------------------------------------------------------------------------
(* Properties of LogOut *)

\* C12: LogOut removes record, created-at and last-validated-at from the
\* token and saves it with MaxAge -1, which makes the client delete its
\* cookie; Authentication on the token LogOut left (as the client holds it,
\* or presented again as it was saved) returns no record; LogOut redirects,
\* to config.LogOutPath, only when redirect is true.
C12_LogOutClears ==
    last.op = "LogOut" =>
        /\ last.post.Values =
             [last.pre.Values EXCEPT !.record = Nil, !.created = NoTime,
                                     !.validated = NoTime]
        /\ last.post.MaxAge = -1
        /\ last.saves = <<last.post>>
        /\ carrier = IF last.saveOK THEN NoCookie ELSE last.carrierPre
        /\ last.redirect = IF last.enforce THEN config.LogOutPath ELSE Nil
        /\ \A enforce \in BOOLEAN, path \in Paths :
             \A v \in ValidateResults(validate, Nil) :
               /\ AuthenticationCall([last.post EXCEPT !.IsNew = FALSE], enforce,
                                     path, v, now, config).record = Nil
               /\ last.saveOK =>
                    AuthenticationCall(getToken(carrier, store), enforce, path,
                                       v, now, config).record = Nil

\* LogOut without redirect was called on a fresh token with a record and a
\* return path, and the client applied the response.
C12_Witness ==
    /\ last.op = "LogOut" /\ ~last.enforce /\ last.saveOK
    /\ ~last.pre.IsNew
    /\ last.pre.Values.record # Nil
    /\ last.pre.Values.return # Nil
    /\ last.pre.Values.created # NoTime
    /\ now - last.pre.Values.created < config.TimeOut
    /\ now - last.pre.Values.validated < config.SyncInterval

----------------------------------------------------------------------------
(* Properties of the fleet.  In a state with syncs[p].pc = "idle" and      *)
(* syncs[p].ran, the latest cycle of process p has ended and syncs[p]      *)
(* tells what it did; preConfig and preStore are config and store of p as  *)
(* that cycle found them.                                                  *)

\* The codecs the rotation that made codec c demoted (one, or none when c
\* was not made by a rotation).
Parents(c) == {x[2] : x \in {y \in parent : y[1] = c}}

\* The codecs two rotations before c.
Grandparents(c) == UNION {Parents(m) : m \in Parents(c)}

\* A token that was encoded under codec g while g was the active codec.
TokenUnder(g) == SavedCookie([NoSessionYet EXCEPT !.Codecs = <<g>>])

\* The token process p issues to a request that brought none.
IssuedBy(p) == SavedCookie(getToken(NoCookie, stores[p]))

\* The latest cycle of p has ended.
CycleDone(p) == syncs[p].pc = "idle" /\ syncs[p].ran

\* C13: a token encoded under generation G while G was active decodes under
\* a store whose active generation was made by one rotation of G (G is its
\* fallback), and does not decode under a store whose active generation is
\* two rotations after G (G is evicted).
C13_RotationTolerance ==
    \A p \in Procs :
        Started(p) =>
            LET a == ActiveCodec(stores[p])
            IN  /\ \A g \in Parents(a) :
                     Decodes(TokenUnder(g), stores[p][1])
                /\ \A g \in Grandparents(a) :
                     ~Decodes(TokenUnder(g), stores[p][1])

\* Process q still has the generation active under which it issues tokens,
\* while the store of process p is two rotations ahead of it.
C13_Witness ==
    \E p \in Procs, q \in Procs :
        /\ Started(p) /\ Started(q)
        /\ ActiveCodec(stores[q]) \in Grandparents(ActiveCodec(stores[p]))
        /\ IssuedBy(q) = TokenUnder(ActiveCodec(stores[q]))
        /\ ~Decodes(IssuedBy(q), stores[p][1])

\* The latest cycle of p built rotateConfig and called db.Upsert with it.
Rotating(p) == Len(syncs[p].rotateConfig) > 0

\* C14: when a cycle finds the keys timed out and the upsert of the rotated
\* Config succeeds, then at the end of the cycle config and store of the
\* process are the rotated Config that was written: two new keys active, the
\* fetched Config's active pair as fallback, and the time stamp now.
C14_RotationAdopted ==
    \A p \in Procs :
        (CycleDone(p) /\ Rotating(p) /\ syncs[p].upsert = "ok") =>
            LET rc == syncs[p].rotateConfig[1]
                fetched == syncs[p].dbConfig[1]
            IN  /\ configs[p] = rc
                /\ stores[p] = configureStore(rc)
                /\ ActiveCodec(stores[p]) \notin
                       {fetched.KeyPairs[i] : i \in 1..Len(fetched.KeyPairs)}
                /\ stores[p][1].Codecs[2] = ActiveCodec(configureStore(fetched))
                /\ configs[p].TimeStamp = syncs[p].at

\* C15: when the upsert of the rotated Config fails, then at the end of the
\* cycle config and store of the process are the Config fetched from the
\* database, not rotated.
C15_FailedRotationNotApplied ==
    \A p \in Procs :
        (CycleDone(p) /\ Rotating(p) /\ syncs[p].upsert = "failed") =>
            /\ configs[p] = syncs[p].dbConfig[1]
            /\ stores[p] = configureStore(syncs[p].dbConfig[1])

\* C16: a process writes its local Config to the database as the seed only
\* when the database holds no Config.
C16_SeedOnlyIntoEmpty ==
    \A p \in Procs :
        (syncs[p].fetchErr /\ syncs[p].upsert = "ok") =>
            syncs[p].dbBefore = << <<>> >>

C18_TimeStampMonotonic ==
    \A p \in Procs :
        CycleDone(p) => syncs[p].preConfig.TimeStamp <= configs[p].TimeStamp

\* C19: at every point of a cycle, what a request reads through config and
\* the keys and MaxAge of store belong to the same Config.
C19_ConsistentSnapshot ==
    \A p \in Procs :
        Started(p) => stores[p] = configureStore(configs[p])

\* C20: while process p has adopted a rotation and process q has not (the
\* active generation of q is the one the rotation demoted), the tokens each
\* of them issues decode at the other.
C20_OverlapTolerated ==
    \A p \in Procs, q \in Procs :
        ( /\ Started(p) /\ Started(q)
          /\ syncs[p].pc = "idle" /\ syncs[q].pc = "idle"
          /\ ActiveCodec(stores[q]) \in Parents(ActiveCodec(stores[p])) ) =>
            /\ Decodes(IssuedBy(q), stores[p][1])
            /\ Decodes(IssuedBy(p), stores[q][1])

----------------------------------------------------------------------------
(* Properties of the token across requests *)

C25_ValidateOnlyWhenStale ==
    (Auth /\ last.vcalls > 0) =>
        /\ last.vcalls = 1
        /\ PreDecoded
        /\ last.pre.Values.created # NoTime
        /\ now - last.pre.Values.created < config.TimeOut
        /\ last.pre.Values.validated # NoTime
        /\ now - last.pre.Values.validated >= config.SyncInterval
        /\ ~PreAbsent /\ ~PreExpired

\* An expired token whose last validation is older than the interval was
\* presented to a process with an application's validate, which was not
\* called.
C25_Witness ==
    /\ Auth /\ PreExpired
    /\ validate = "custom"
    /\ last.pre.Values.validated # NoTime
    /\ now - last.pre.Values.validated >= config.SyncInterval
    /\ last.vcalls = 0

----------------------------------------------------------------------------
(* Properties of the key list *)

\* The key list of cfg is one or two complete pairs of an authentication
\* key and an encryption key.
OneOrTwoGenerations(cfg) ==
    /\ Len(cfg.KeyPairs) = 2 * Len(CodecsFromPairs(cfg.KeyPairs))
    /\ Len(CodecsFromPairs(cfg.KeyPairs)) \in {1, 2}

\* C22: the key list of the Config a process holds, after Configure with
\* any optionalConfig and at every point of every cycle of sync, is one or
\* two complete generations, and so are the key lists of the Config in the
\* database, of a rotateConfig about to be written, and of the store.
C22_KeyGenerations ==
    /\ \A i \in 1..Len(db) : OneOrTwoGenerations(db[i])
    /\ \A p \in Procs :
         Started(p) =>
           /\ OneOrTwoGenerations(configs[p])
           /\ Len(stores[p][1].Codecs) \in {1, 2}
           /\ \A i \in 1..Len(syncs[p].rotateConfig) :
                OneOrTwoGenerations(syncs[p].rotateConfig[i])

\* A process that was configured with keys of its own holds, after a cycle,
\* a rotation of the key list another process was configured with.
C22_Witness ==
    \E p \in Procs :
        /\ CycleDone(p)
        /\ syncs[p].preConfig.KeyPairs # <<5, 6, 7, 8>>
        /\ Len(configs[p].KeyPairs) = 4
        /\ configs[p].KeyPairs[3] = 5 /\ configs[p].KeyPairs[4] = 6
        /\ stores[p] = configureStore(configs[p])

----------------------------------------------------------------------------
(* Properties of the fleet for ever *)

\* Config and store of p are the Config the database holds.
Converged(p) ==
    /\ Len(db) > 0
    /\ configs[p] = db[1]
    /\ stores[p] = configureStore(db[1])

\* The database holds a Config whose keys timed out.
DbStale == Len(db) > 0 /\ rotationDue(db[1], now)

\* The database holds a Config made by a rotation, whose keys have not
\* timed out, and every process that runs holds it.
RotationAdopted ==
    /\ Len(db) > 0 /\ ~rotationDue(db[1], now)
    /\ Parents(ActiveCodec(configureStore(db[1]))) # {}
    /\ \A p \in Procs : Started(p) => Converged(p)

\* C23: with the database reachable and the goroutines running, a process
\* always comes to hold, in config and store, the Config the database
\* holds; and when the keys of the Config in the database have timed out, a
\* rotation comes to be in the database and held by every process.
C23_FleetConverges ==
    /\ \A p \in Procs : Started(p) ~> Converged(p)
    /\ DbStale ~> RotationAdopted

====
